---- MODULE Spec2Model ----
(***************************************************************************)
(* Model of the animation engine of the animated contribution heatmap      *)
(* (src/src/hooks/useAnimationPatterns.ts): the live grid, AnimationState, *)
(* the pattern step functions, the requestAnimationFrame loop and the      *)
(* animation effect that arms and cancels it.                              *)
(*                                                                         *)
(* Each React state updater of the hook is applied atomically with the     *)
(* handler that enqueues it.  The animation effect is a passive effect:    *)
(* React runs it after the render that follows a change of its            *)
(* dependencies, so it is its own step and a pending frame may run         *)
(* between a state change and the effect.                                  *)
(*                                                                         *)
(* The letter triggers of the presentation layer                           *)
(* (src/src/components/ContributionCalendar.tsx: handleLetterClick, its    *)
(* debounce timer, showRealData and the control buttons) drive the engine  *)
(* in AdapterSpec; TimingSpec follows one run with a clock fine enough to  *)
(* measure the time between committed steps.                               *)
(***************************************************************************)
EXTENDS Integers, Sequences, FiniteSets, TLC

\* ------------------------------------------------------------------ bounds
\* maxGenerations is configuration: 0 and MaxGenLimit are explored
MaxGenLimit == 2
\* the configured step interval in ms (strictly more must elapse)
animationSpeed == 1
\* letter triggers 0..MaxLetterIndex are clicked
MaxLetterIndex == 1
\* Math.random() draws of one call that fall in the branch that sets or
\* clears a cell (a live cell of a random grid, a spawned or vanished drop)
MaxHits == 1
\* pending frames no longer referenced by animationFrameRef that are tracked
MaxOrphans == 2
\* the step interval in ms of the engine TimingSpec follows
TimingSpeed == 3
\* the largest integer a cell of an arbitrary input grid holds
MaxCell == 2
\* maxGenerations of the engine whose ripple emitters are followed: enough
\* frames for an emitter to outgrow the smallest maxRadius
RippleGenerations == 12
\* GraphQL requests one ContributionCalendar sends
MaxRequests == 3

\* --------------------------------------------------------------- constants
NoLetter == -1
\* no committed step to measure from
NoTime == -1
\* the minimum time (ms) between two requests fetchGithubContributions sends
ThrottleWindow == 1000
\* largest time (ms) the model lets pass since lastUpdateTimeRef
MaxElapsed == animationSpeed + 1
\* the grid dimensions an engine is constructed with
GridShapes == {<<2, 1>>, <<2, 2>>}
Patterns == {"gameOfLife", "ripple", "wave", "rain", "spiral", "noise", "rule30", "image"}
animateLetterPatterns ==
    <<"gameOfLife", "noise", "wave", "spiral", "rule30", "rain", "ripple", "gameOfLife">>
LetterIndexes == 0 .. (Len(animateLetterPatterns) - 1)
ClickedLetters == 0 .. MaxLetterIndex

\* ---------------------------------------------------------- grid primitives
RowIdx(rows) == 0 .. (rows - 1)
ColIdx(cols) == 0 .. (cols - 1)
Grids(rows, cols) == [RowIdx(rows) -> [ColIdx(cols) -> {0, 1}]]

createEmptyGridOf(rows, cols) == [r \in RowIdx(rows) |-> [c \in ColIdx(cols) |-> 0]]

LiveCells(g) ==
    {rc \in UNION {{r} \X (DOMAIN g[r]) : r \in DOMAIN g} : g[rc[1]][rc[2]] = 1}

\* the 0/1 grids a cell-by-cell random fill can produce with at most MaxHits
\* live cells
RandomFill(rows, cols) == {g \in Grids(rows, cols) : Cardinality(LiveCells(g)) <= MaxHits}

\* Math.random() > 0.7 is drawn per cell
createRandomGridOf(rows, cols) == RandomFill(rows, cols)

\* grid.map(row => [...row]): a copy has the same cells
CopyGrid(g) == [r \in DOMAIN g |-> [c \in DOMAIN g[r] |-> g[r][c]]]

\* --------------------------------------------------------- pattern state
EmptyState == [kind |-> "empty"]
TimeState(t) == [kind |-> "time", time |-> t]
RippleState(rs) == [kind |-> "ripples", ripples |-> rs]

\* state.time || 0
TimeOf(state) == IF state.kind = "time" THEN state.time ELSE 0
\* const { ripples = [] } = state
RipplesOf(state) == IF state.kind = "ripples" THEN state.ripples ELSE <<>>

\* a step result; patternState is <<>> when the step returns none
Result(g, ch) == [newGrid |-> g, hasChanged |-> ch, patternState |-> <<>>]
ResultS(g, ch, st) == [newGrid |-> g, hasChanged |-> ch, patternState |-> <<st>>]

\* ------------------------------------------------------------ Game of Life
directions ==
    {<<-1, -1>>, <<-1, 0>>, <<-1, 1>>, <<0, -1>>, <<0, 1>>, <<1, -1>>, <<1, 0>>, <<1, 1>>}

RECURSIVE SumCells(_, _)
SumCells(g, S) ==
    IF S = {} THEN 0
    ELSE LET p == CHOOSE q \in S : TRUE
         IN  g[p[1]][p[2]] + SumCells(g, S \ {p})

countNeighbors(g, rows, cols, row, col) ==
    SumCells(g, {<<row + d[1], col + d[2]>> : d \in
                   {e \in directions : /\ row + e[1] >= 0 /\ row + e[1] < rows
                                       /\ col + e[2] >= 0 /\ col + e[2] < cols}})

\* mutant: a dead cell is born with two live neighbours as well
gameOfLifeCellBirthOnTwo(g, rows, cols, row, col) ==
    LET neighbors == countNeighbors(g, rows, cols, row, col)
    IN  IF neighbors = 2 \/ neighbors = 3 THEN 1 ELSE 0

gameOfLifeCell(g, rows, cols, row, col) ==
    LET neighbors == countNeighbors(g, rows, cols, row, col)
    IN  IF g[row][col] = 1
        THEN (IF neighbors = 2 \/ neighbors = 3 THEN 1 ELSE 0)
        ELSE (IF neighbors = 3 THEN 1 ELSE 0)

\* mutant: hasChanged tells whether the new grid has a live cell
gameOfLifeStepChangedIfAlive(g, rows, cols) ==
    LET newGrid == [r \in RowIdx(rows) |->
                      [c \in ColIdx(cols) |-> gameOfLifeCell(g, rows, cols, r, c)]]
        hasChanged == \E r \in RowIdx(rows), c \in ColIdx(cols) : newGrid[r][c] = 1
    IN  {Result(newGrid, hasChanged)}

gameOfLifeStep(g, rows, cols) ==
    LET newGrid == [r \in RowIdx(rows) |->
                      [c \in ColIdx(cols) |-> gameOfLifeCell(g, rows, cols, r, c)]]
        hasChanged == \E r \in RowIdx(rows), c \in ColIdx(cols) : newGrid[r][c] # g[r][c]
    IN  {Result(newGrid, hasChanged)}

\* ------------------------------------------------------------------ Rule 30
\* mutant: the table of Rule 90
rule30TableRule90 == <<0, 1, 0, 1, 1, 0, 1, 0>>

rule30Table == <<0, 1, 1, 1, 1, 0, 0, 0>>

\* mutant: the middle row is shifted like every other row
rule30StepShiftsAllRows(g, rows, cols) ==
    LET newGrid ==
          [r \in RowIdx(rows) |-> [c \in ColIdx(cols) |->
             IF c > 0 THEN g[r][c - 1] ELSE 0]]
    IN  {Result(newGrid, TRUE)}

rule30Step(g, rows, cols) ==
    LET middleRow == rows \div 2
        newGrid ==
          [r \in RowIdx(rows) |-> [c \in ColIdx(cols) |->
             IF r = middleRow
             THEN (IF c >= 1 /\ c < cols - 1
                   THEN rule30Table[4 * g[r][c - 1] + 2 * g[r][c] + g[r][c + 1] + 1]
                   ELSE g[r][c])
             ELSE (IF c > 0 THEN g[r][c - 1] ELSE 0)]]
    IN  {Result(newGrid, TRUE)}

\* -------------------------------------------------------------------- Noise
\* mutant: the noise grid is one column too wide
noiseStepWiderGrid(g, rows, cols) == {Result(n, TRUE) : n \in RandomFill(rows, cols + 1)}

\* Math.random() > 0.8 is drawn per cell
noiseStep(g, rows, cols) == {Result(n, TRUE) : n \in RandomFill(rows, cols)}

\* --------------------------------------------------------------------- Rain
\* spawn: the columns whose top-row draw is < 0.05; clear: the columns whose
\* bottom-row draw is < 0.3.  The move loop reads currentGrid and runs from
\* the bottom row upwards, writing 1 below a live cell and 0 in its place.
RandomColumns(cols) == {S \in SUBSET ColIdx(cols) : Cardinality(S) <= MaxHits}

rainCell(g, rows, r, c, spawn, clear) ==
    LET top == IF r = 0 /\ c \in spawn THEN 1 ELSE g[r][c]
        vacated == IF r < rows - 1 /\ g[r][c] = 1 THEN 0 ELSE top
        moved == IF r > 0 /\ g[r - 1][c] = 1 THEN 1 ELSE vacated
    IN  IF r = rows - 1 /\ c \in clear THEN 0 ELSE moved

rainStep(g, rows, cols) ==
    {Result([r \in RowIdx(rows) |-> [c \in ColIdx(cols) |->
                 rainCell(g, rows, r, c, spawn, clear)]], TRUE) :
        spawn \in RandomColumns(cols), clear \in RandomColumns(cols)}

\* --------------------------------------------------------------------- Wave
\* round(1000 * sin(0.1 * k)) for k = 0..20 and round(1000 * sin(0.15 * m))
\* for m = 0..20; col*0.2 + time*0.1 = 0.1*(2*col + time) and
\* row*0.3 + time*0.15 = 0.15*(2*row + time).  Over these ranges the sum is
\* at least 28 away from the threshold 600, so rounding decides no cell.
SinTenth ==
    <<0, 100, 199, 296, 389, 479, 565, 644, 717, 783, 841, 891, 932, 964, 985,
      997, 1000, 992, 974, 946, 909>>
SinFifteenHundredths ==
    <<0, 149, 296, 435, 565, 682, 783, 867, 932, 976, 997, 997, 974, 929, 863,
      778, 675, 558, 427, 287, 141>>

\* mutant: the wave counts its time in steps of two
waveStepTimeByTwo(g, rows, cols, state) ==
    LET time == TimeOf(state)
        newGrid == [r \in RowIdx(rows) |-> [c \in ColIdx(cols) |->
                      IF SinTenth[2 * c + time + 1] + SinFifteenHundredths[2 * r + time + 1] > 600
                      THEN 1 ELSE 0]]
    IN  {ResultS(newGrid, TRUE, TimeState(time + 2))}

waveStep(g, rows, cols, state) ==
    LET time == TimeOf(state)
        newGrid == [r \in RowIdx(rows) |-> [c \in ColIdx(cols) |->
                      IF SinTenth[2 * c + time + 1] + SinFifteenHundredths[2 * r + time + 1] > 600
                      THEN 1 ELSE 0]]
    IN  {ResultS(newGrid, TRUE, TimeState(time + 1))}

\* ------------------------------------------------------------------- Spiral
\* the tuples <<rows, cols, row, col, time>> with
\* sin(atan2(row - rows/2, col - cols/2)*3 + distance*0.5 - time*0.2) > 0.5,
\* for rows, cols in 1..3 and time in 0..5
SpiralLive ==
    {<<1,2,0,1,0>>, <<1,2,0,1,1>>, <<1,2,0,1,2>>, <<1,2,0,1,3>>,
     <<1,2,0,1,4>>, <<1,2,0,1,5>>, <<2,1,0,0,0>>, <<2,1,0,0,1>>,
     <<2,1,1,0,4>>, <<2,1,1,0,5>>, <<2,2,0,1,0>>, <<2,2,0,1,1>>,
     <<2,2,0,1,2>>, <<2,2,0,1,3>>, <<2,2,0,1,4>>, <<2,2,0,1,5>>,
     <<2,3,0,1,0>>, <<2,3,0,1,1>>, <<2,3,1,1,4>>, <<2,3,0,2,5>>,
     <<2,3,1,1,5>>, <<3,1,0,0,0>>, <<3,1,2,0,0>>, <<3,1,0,0,1>>,
     <<3,1,2,0,1>>, <<3,1,0,0,2>>, <<3,1,2,0,2>>, <<3,1,0,0,3>>,
     <<3,1,2,0,3>>, <<3,1,0,0,4>>, <<3,2,0,0,0>>, <<3,2,0,1,0>>,
     <<3,2,1,1,0>>, <<3,2,2,0,0>>, <<3,2,0,1,1>>, <<3,2,1,1,1>>,
     <<3,2,2,0,1>>, <<3,2,0,1,2>>, <<3,2,1,1,2>>, <<3,2,2,0,2>>,
     <<3,2,0,1,3>>, <<3,2,1,1,3>>, <<3,2,2,0,3>>, <<3,2,0,1,4>>,
     <<3,2,1,1,4>>, <<3,2,2,0,4>>, <<3,2,0,1,5>>, <<3,2,1,1,5>>,
     <<3,2,2,0,5>>, <<3,3,0,1,0>>, <<3,3,2,1,0>>, <<3,3,0,1,1>>,
     <<3,3,2,1,1>>, <<3,3,2,2,1>>, <<3,3,0,1,2>>, <<3,3,2,0,2>>,
     <<3,3,2,1,2>>, <<3,3,2,2,2>>, <<3,3,0,1,3>>, <<3,3,2,0,3>>,
     <<3,3,2,1,3>>, <<3,3,2,2,3>>, <<3,3,0,1,4>>, <<3,3,0,2,4>>,
     <<3,3,2,0,4>>, <<3,3,2,2,4>>, <<3,3,0,2,5>>, <<3,3,2,0,5>>,
     <<3,3,2,2,5>>}

\* applying the table outside the range it was computed for is an error
SpiralRange == [rc \in (1 .. 3) \X (1 .. 3), t \in 0 .. 5 |-> TRUE]

spiralStep(g, rows, cols, state) ==
    LET time == TimeOf(state)
        newGrid == [r \in RowIdx(rows) |-> [c \in ColIdx(cols) |->
                      IF SpiralRange[<<rows, cols>>, time] /\ <<rows, cols, r, c, time>> \in SpiralLive
                      THEN 1 ELSE 0]]
    IN  {ResultS(newGrid, TRUE, TimeState(time + 1))}

\* ------------------------------------------------------------------- Ripple
\* radius is kept in half units (radius2 = 2 * radius).  maxRadius is a real
\* in [5, 20); radius > maxRadius with radius a multiple of 0.5 depends only
\* on floor(2 * maxRadius), kept as maxRadius2 in 10..39.
MaxRadius2Choices == {10}

\* Math.abs(distance - radius) < 1, squared: 4*d^2 < (radius2 + 2)^2 and
\* (radius2 < 2 or 4*d^2 > (radius2 - 2)^2)
onRing(row, col, ripple) ==
    LET d2 == (row - ripple.centerRow) * (row - ripple.centerRow)
              + (col - ripple.centerCol) * (col - ripple.centerCol)
        hi == ripple.radius2 + 2
        lo == ripple.radius2 - 2
    IN  /\ 4 * d2 < hi * hi
        /\ (lo < 0 \/ 4 * d2 > lo * lo)

\* a new emitter is pushed before the update loop, so it is grown too
NewRipples(rows, cols) ==
    [centerRow : RowIdx(rows), centerCol : ColIdx(cols), radius2 : {0},
     maxRadius2 : MaxRadius2Choices]

GrowRipple(ripple) == [ripple EXCEPT !.radius2 = @ + 1]

\* mutant: an emitter is dropped as soon as its radius reaches maxRadius
rippleAfterDropsAtMax(ripples) ==
    SelectSeq([i \in 1 .. Len(ripples) |-> GrowRipple(ripples[i])],
              LAMBDA rp : ~(rp.radius2 >= rp.maxRadius2))

rippleAfter(ripples) ==
    SelectSeq([i \in 1 .. Len(ripples) |-> GrowRipple(ripples[i])],
              LAMBDA rp : ~(rp.radius2 > rp.maxRadius2))

rippleResult(rows, cols, pushed) ==
    LET newRipples == rippleAfter(pushed)
        newGrid == [r \in RowIdx(rows) |-> [c \in ColIdx(cols) |->
                      IF \E i \in 1 .. Len(newRipples) : onRing(r, c, newRipples[i])
                      THEN 1 ELSE 0]]
    IN  ResultS(newGrid, TRUE, RippleState(newRipples))

rippleStep(g, rows, cols, state) ==
    LET ripples == RipplesOf(state)
    IN  {rippleResult(rows, cols, ripples)} \cup
        {rippleResult(rows, cols, Append(ripples, n)) : n \in NewRipples(rows, cols)}

\* ---------------------------------------------------------- executePattern
\* mutant: a pattern without a step function clears the grid
executePatternDefaultClears(g, rows, cols, pattern, state) ==
    CASE pattern = "gameOfLife" -> gameOfLifeStep(g, rows, cols)
      [] pattern = "ripple" -> rippleStep(g, rows, cols, state)
      [] pattern = "wave" -> waveStep(g, rows, cols, state)
      [] pattern = "rain" -> rainStep(g, rows, cols)
      [] pattern = "spiral" -> spiralStep(g, rows, cols, state)
      [] pattern = "noise" -> noiseStep(g, rows, cols)
      [] pattern = "rule30" -> rule30Step(g, rows, cols)
      [] OTHER -> {Result(createEmptyGridOf(rows, cols), TRUE)}

executePattern(g, rows, cols, pattern, state) ==
    CASE pattern = "gameOfLife" -> gameOfLifeStep(g, rows, cols)
      [] pattern = "ripple" -> rippleStep(g, rows, cols, state)
      [] pattern = "wave" -> waveStep(g, rows, cols, state)
      [] pattern = "rain" -> rainStep(g, rows, cols)
      [] pattern = "spiral" -> spiralStep(g, rows, cols, state)
      [] pattern = "noise" -> noiseStep(g, rows, cols)
      [] pattern = "rule30" -> rule30Step(g, rows, cols)
      [] OTHER -> {Result(g, FALSE)}

\* ------------------------------------------------------------------- state
VARIABLES
    gridRows,          \* configuration rows, fixed at construction
    gridCols,          \* configuration cols, fixed at construction
    maxGenerations,    \* configuration, fixed at construction
    stableCallbacks,   \* the host passes the same onAnimationStart on every render
    grid,              \* useState grid: the live grid
    animationState,    \* useState AnimationState
    animationFrameRef, \* "null", "pending" (id of a pending frame) or "stale"
    orphanFrames,      \* pending frames animationFrameRef no longer names
    elapsed,           \* performance.now() - lastUpdateTimeRef at the last tick or effect
    effectIsRunning,   \* the isRunning dependency the animation effect last ran with
    animateChanged,    \* animate got a new identity since the effect last ran
    fired,             \* notifications fired by the last step
    lastTick,          \* history: the outcome of the last step if it ran animate, or "none"
    interval,          \* configuration animationSpeed (ms), fixed at construction
    showRealData,      \* ContributionCalendar useState showRealData
    letterClickDebounceRef, \* TRUE while the 120 ms debounce timer is armed
    lastClick,         \* history: the trigger of the last accepted click that left the
                       \* animation running, or NoLetter
    sinceCommit,       \* history (TimingSpec): ms since the last committed step, capped
    commitGap,         \* history (TimingSpec): ms between the last two committed steps, capped
    failure,           \* the exception the last construction or operation threw, or "none"
    credentials,       \* props githubToken and username are both non-empty
    isLoading,         \* ContributionCalendar useState isLoading
    error,             \* ContributionCalendar useState error: "null" or "message"
    data,              \* ContributionCalendar useState data: "null" or "loaded"
    isFetching,        \* ContributionCalendar useState isFetching
    closureIsFetching, \* isFetching as captured by the current fetchGithubContributions
    timerIsFetching,   \* isFetching as captured by the callback the initial timer calls
    sinceRequest,      \* Date.now() - lastRequestTimeRef.current in ms, capped at ThrottleWindow
    inFlight,          \* a GraphQL request awaits its response
    hasInitialized,    \* useRef hasInitialized
    initialTimer,      \* the 100 ms timer of the initial fetch: "none", "armed", "fired", "cleared"
    fetchChanged,      \* fetchGithubContributions got a new identity since its effect last ran
    requests,          \* history: number of GraphQL requests sent
    autoRequests,      \* history: number of GraphQL requests sent by the initial timer
    sentGap,           \* history: ms between the last two sent requests, capped, or NoTime
    lastAttempt        \* history: outcome of the last step if it called
                       \* fetchGithubContributions, or "none"

config == <<gridRows, gridCols, maxGenerations, stableCallbacks, interval>>
\* the presentation layer's state
host == <<showRealData, letterClickDebounceRef, lastClick>>
\* the clock of TimingSpec
timing == <<sinceCommit, commitGap>>
\* the data-fetching state of ContributionCalendar
fetching == <<credentials, isLoading, error, data, isFetching, closureIsFetching,
              timerIsFetching, sinceRequest, inFlight, hasInitialized, initialTimer,
              fetchChanged, requests, autoRequests, sentGap, lastAttempt>>
\* what the animation steps never touch
outer == <<failure, fetching>>
vars == <<gridRows, gridCols, maxGenerations, stableCallbacks, grid, animationState,
          animationFrameRef, orphanFrames, elapsed, effectIsRunning, animateChanged,
          fired, lastTick, interval, showRealData, letterClickDebounceRef, lastClick,
          sinceCommit, commitGap, failure, credentials, isLoading, error, data,
          isFetching, closureIsFetching, timerIsFetching, sinceRequest, inFlight,
          hasInitialized, initialTimer, fetchChanged, requests, autoRequests, sentGap,
          lastAttempt>>

Started(p) == [type |-> "started", pattern |-> p]
PatternChanged(p) == [type |-> "patternChanged", pattern |-> p]
Stopped == [type |-> "stopped"]

createEmptyGrid == createEmptyGridOf(gridRows, gridCols)
createRandomGrid == createRandomGridOf(gridRows, gridCols)

InitialState ==
    [isRunning |-> FALSE, currentPattern |-> "gameOfLife", generation |-> 0,
     patternState |-> EmptyState, activeLetterIndex |-> NoLetter, baselineGrid |-> <<>>]

\* the hook and the animation side of the component as mounted with step
\* interval speed
HookMounted(speed) ==
    /\ \E shape \in GridShapes : gridRows = shape[1] /\ gridCols = shape[2]
    /\ maxGenerations \in {0, MaxGenLimit}
    /\ interval = speed
    /\ stableCallbacks \in BOOLEAN
    /\ grid = createEmptyGrid
    /\ animationState = InitialState
    /\ animationFrameRef = "null"
    /\ orphanFrames = 0
    /\ elapsed = 0
    /\ effectIsRunning = FALSE
    /\ animateChanged = FALSE
    /\ fired = <<>>
    /\ lastTick = "none"
    /\ showRealData = TRUE
    /\ letterClickDebounceRef = FALSE
    /\ lastClick = NoLetter
    /\ sinceCommit = NoTime
    /\ commitGap = NoTime
    /\ failure = "none"

\* the data-fetching state of ContributionCalendar as mounted
CalendarMounted ==
    /\ isLoading = TRUE
    /\ error = "null"
    /\ data = "null"
    /\ isFetching = FALSE
    /\ closureIsFetching = FALSE
    /\ timerIsFetching = FALSE
    /\ sinceRequest = ThrottleWindow
    /\ inFlight = FALSE
    /\ hasInitialized = FALSE
    /\ initialTimer = "none"
    /\ fetchChanged = FALSE
    /\ requests = 0
    /\ autoRequests = 0
    /\ sentGap = NoTime
    /\ lastAttempt = "none"

\* the hook and the component as mounted with step interval speed, the
\* component holding a token and a user name
Mounted(speed) ==
    /\ HookMounted(speed)
    /\ credentials = TRUE
    /\ CalendarMounted

Init == Mounted(animationSpeed)

\* ------------------------------------------------------- frame bookkeeping
\* mutant: the cancel is lost
CancelledRefKeeps(ref) == ref

\* cancelAnimationFrame(animationFrameRef.current): the frame the ref names,
\* if still pending, is gone; the ref keeps its (now stale) id
CancelledRef(ref) == IF ref = "pending" THEN "stale" ELSE ref

PendingOf(ref, orphans) == (IF ref = "pending" THEN 1 ELSE 0) + orphans
PendingFrames == PendingOf(animationFrameRef, orphanFrames)

\* --------------------------------------------------------------- operations
\* mutant: every start captures a baseline
startStateAlwaysCaptures(prev, pattern, letterIndex, captured) ==
    [prev EXCEPT !.isRunning = TRUE,
                 !.currentPattern = pattern,
                 !.generation = 0,
                 !.patternState = EmptyState,
                 !.activeLetterIndex = letterIndex,
                 !.baselineGrid = <<CopyGrid(captured)>>]

startState(prev, pattern, letterIndex, captured) ==
    [prev EXCEPT !.isRunning = TRUE,
                 !.currentPattern = pattern,
                 !.generation = 0,
                 !.patternState = EmptyState,
                 !.activeLetterIndex = letterIndex,
                 !.baselineGrid = IF prev.baselineGrid # <<>> THEN prev.baselineGrid
                                  ELSE <<CopyGrid(captured)>>]

\* useCallback(..., [onAnimationStart]): startAnimation closes over the grid
\* of the render that built it.  With a stable onAnimationStart that is the
\* mount render; with a callback that is new on every render it is the
\* latest render.
closureGrid == IF stableCallbacks THEN createEmptyGrid ELSE grid

\* mutant: start clears the grid
startAnimationClearsGrid(pattern, letterIndex) ==
    /\ fired' = <<Started(pattern)>>
    /\ lastTick' = "none"
    /\ animationState' = startState(animationState, pattern, letterIndex, closureGrid)
    /\ grid' = createEmptyGrid
    /\ UNCHANGED <<config, animationFrameRef, orphanFrames, elapsed,
                   effectIsRunning, animateChanged>>

startAnimation(pattern, letterIndex) ==
    /\ fired' = <<Started(pattern)>>
    /\ lastTick' = "none"
    /\ animationState' = startState(animationState, pattern, letterIndex, closureGrid)
    /\ UNCHANGED <<config, grid, animationFrameRef, orphanFrames, elapsed,
                   effectIsRunning, animateChanged>>

\* mutant: stop forgets to clear isRunning
stopStateKeepsRunning(prev) == [prev EXCEPT !.activeLetterIndex = NoLetter]

stopState(prev) == [prev EXCEPT !.isRunning = FALSE, !.activeLetterIndex = NoLetter]

\* mutant: without a baseline stop clears the grid
stopGridClearsWithoutBaseline(prev, g) ==
    IF prev.baselineGrid # <<>> THEN CopyGrid(prev.baselineGrid[1])
    ELSE [r \in DOMAIN g |-> [c \in DOMAIN g[r] |-> 0]]

\* the grid after stopAnimation: the baseline, if present, is restored
stopGrid(prev, g) == IF prev.baselineGrid # <<>> THEN CopyGrid(prev.baselineGrid[1]) ELSE g

stopAnimation ==
    /\ fired' = <<Stopped>>
    /\ lastTick' = "none"
    /\ grid' = stopGrid(animationState, grid)
    /\ animationState' = stopState(animationState)
    /\ UNCHANGED <<config, animationFrameRef, orphanFrames, elapsed,
                   effectIsRunning, animateChanged>>

\* mutant: the pattern-local state survives a pattern switch
changeStateKeepsPatternState(prev, pattern) ==
    [prev EXCEPT !.currentPattern = pattern, !.generation = 0]

\* mutant: a pattern switch forgets the active trigger
changeStateClearsLetter(prev, pattern) ==
    [prev EXCEPT !.currentPattern = pattern, !.generation = 0, !.patternState = EmptyState,
                 !.activeLetterIndex = NoLetter]

changeState(prev, pattern) ==
    [prev EXCEPT !.currentPattern = pattern, !.generation = 0, !.patternState = EmptyState]

\* mutant: Rule 30 is seeded in the corner, not the centre
seedGridsCornerSeed(pattern, rows, cols) ==
    IF pattern = "gameOfLife" \/ pattern = "noise" THEN createRandomGridOf(rows, cols)
    ELSE IF pattern = "rule30"
         THEN {[createEmptyGridOf(rows, cols) EXCEPT ![0][0] = 1]}
         ELSE {createEmptyGridOf(rows, cols)}

\* the grids changePattern may set for a pattern
seedGrids(pattern, rows, cols) ==
    IF pattern = "gameOfLife" \/ pattern = "noise" THEN createRandomGridOf(rows, cols)
    ELSE IF pattern = "rule30"
         THEN {[createEmptyGridOf(rows, cols) EXCEPT ![rows \div 2][cols \div 2] = 1]}
         ELSE {createEmptyGridOf(rows, cols)}

changePattern(pattern) ==
    /\ fired' = <<PatternChanged(pattern)>>
    /\ lastTick' = "none"
    /\ animationState' = changeState(animationState, pattern)
    /\ grid' \in seedGrids(pattern, gridRows, gridCols)
    /\ UNCHANGED <<config, animationFrameRef, orphanFrames, elapsed,
                   effectIsRunning, animateChanged>>

\* mutant: reset and randomize drop the baseline
resetStateClearsBaseline(prev) ==
    [prev EXCEPT !.isRunning = FALSE, !.generation = 0, !.patternState = EmptyState,
                 !.activeLetterIndex = NoLetter, !.baselineGrid = <<>>]

resetState(prev) ==
    [prev EXCEPT !.isRunning = FALSE, !.generation = 0, !.patternState = EmptyState,
                 !.activeLetterIndex = NoLetter]

resetGrid ==
    /\ fired' = <<>>
    /\ lastTick' = "none"
    /\ animationState' = resetState(animationState)
    /\ grid' = createEmptyGrid
    /\ UNCHANGED <<config, animationFrameRef, orphanFrames, elapsed,
                   effectIsRunning, animateChanged>>

randomizeGrid ==
    /\ fired' = <<>>
    /\ lastTick' = "none"
    /\ animationState' = resetState(animationState)
    /\ grid' \in createRandomGrid
    /\ UNCHANGED <<config, animationFrameRef, orphanFrames, elapsed,
                   effectIsRunning, animateChanged>>

\* -------------------------------------------------------------------- ticks
\* mutant: the step commits without looking at isRunning
tickOutcomeNoRunningCheck(prev, res, maxGen) ==
    IF prev.currentPattern = "gameOfLife" /\ ~res.hasChanged THEN "stabilized"
    ELSE IF prev.generation >= maxGen THEN "limit"
    ELSE "commit"

\* mutant: a stable Game of Life keeps running
tickOutcomeNoStability(prev, res, maxGen) ==
    IF ~prev.isRunning THEN "cancelled"
    ELSE IF prev.generation >= maxGen THEN "limit"
    ELSE "commit"

\* mutant: the limit test is > instead of >=
tickOutcomeOffByOne(prev, res, maxGen) ==
    IF ~prev.isRunning THEN "cancelled"
    ELSE IF prev.currentPattern = "gameOfLife" /\ ~res.hasChanged THEN "stabilized"
    ELSE IF prev.generation > maxGen THEN "limit"
    ELSE "commit"

\* the outcome of the setAnimationState updater inside setGrid for one step result
tickOutcome(prev, res, maxGen) ==
    IF ~prev.isRunning THEN "cancelled"
    ELSE IF prev.currentPattern = "gameOfLife" /\ ~res.hasChanged THEN "stabilized"
    ELSE IF prev.generation >= maxGen THEN "limit"
    ELSE "commit"

\* rippleStep copies the array of emitters but not the emitters
\* ([...ripples]), and ripple.radius += 0.5 writes into them: the pattern
\* state handed to a ripple step holds the grown radii afterwards, its array
\* neither spliced nor pushed to.  A step that is committed replaces that
\* state; a step that ends the run at the generation limit keeps it.
steppedInPlace(pattern, state) ==
    IF pattern = "ripple" /\ state.kind = "ripples"
    THEN RippleState([i \in 1 .. Len(state.ripples) |-> GrowRipple(state.ripples[i])])
    ELSE state

\* mutant: an auto-stop also bumps generation
tickStateCountsStops(prev, res, maxGen) ==
    LET outcome == tickOutcome(prev, res, maxGen)
    IN  IF outcome = "cancelled" THEN prev
        ELSE IF outcome \in {"stabilized", "limit"}
        THEN [prev EXCEPT !.isRunning = FALSE, !.generation = prev.generation + 1,
                          !.patternState = steppedInPlace(prev.currentPattern, @)]
        ELSE [prev EXCEPT !.generation = prev.generation + 1,
                          !.patternState = IF res.patternState # <<>>
                                           THEN res.patternState[1]
                                           ELSE prev.patternState]

\* mutant: the stop at the generation limit leaves isRunning set
tickStateLimitKeepsRunning(prev, res, maxGen) ==
    LET outcome == tickOutcome(prev, res, maxGen)
    IN  IF outcome = "cancelled" THEN prev
        ELSE IF outcome = "limit"
        THEN [prev EXCEPT !.patternState = steppedInPlace(prev.currentPattern, @)]
        ELSE IF outcome = "stabilized" THEN [prev EXCEPT !.isRunning = FALSE]
        ELSE [prev EXCEPT !.generation = prev.generation + 1,
                          !.patternState = IF res.patternState # <<>>
                                           THEN res.patternState[1]
                                           ELSE prev.patternState]

\* mutant: the baseline is the live grid itself, so a committed step shows
\* in it
tickStateBaselineFollowsGrid(prev, res, maxGen) ==
    LET outcome == tickOutcome(prev, res, maxGen)
    IN  IF outcome = "cancelled" THEN prev
        ELSE IF outcome \in {"stabilized", "limit"}
        THEN [prev EXCEPT !.isRunning = FALSE,
                          !.patternState = steppedInPlace(prev.currentPattern, @)]
        ELSE [prev EXCEPT !.generation = prev.generation + 1,
                          !.patternState = IF res.patternState # <<>>
                                           THEN res.patternState[1]
                                           ELSE prev.patternState,
                          !.baselineGrid = IF prev.baselineGrid # <<>>
                                           THEN <<res.newGrid>>
                                           ELSE prev.baselineGrid]

tickState(prev, res, maxGen) ==
    LET outcome == tickOutcome(prev, res, maxGen)
    IN  IF outcome = "cancelled" THEN prev
        ELSE IF outcome \in {"stabilized", "limit"}
        THEN [prev EXCEPT !.isRunning = FALSE,
                          !.patternState = steppedInPlace(prev.currentPattern, @)]
        ELSE [prev EXCEPT !.generation = prev.generation + 1,
                          !.patternState = IF res.patternState # <<>>
                                           THEN res.patternState[1]
                                           ELSE prev.patternState]

tickGrid(g, prev, res, maxGen) ==
    IF tickOutcome(prev, res, maxGen) = "commit" THEN res.newGrid ELSE g

\* mutant: the stop at the generation limit is silent
tickFiredSilentLimit(prev, res, maxGen) ==
    IF tickOutcome(prev, res, maxGen) = "stabilized" THEN <<Stopped>> ELSE <<>>

tickFired(prev, res, maxGen) ==
    IF tickOutcome(prev, res, maxGen) \in {"stabilized", "limit"} THEN <<Stopped>> ELSE <<>>

\* mutant: every frame steps, whatever time has elapsed
gateOpenAlways(e) == TRUE

\* elapsed > animationSpeed
gateOpen(e) == e > interval

\* a pending frame runs animate; now - lastUpdateTimeRef is e
animate(tracked, e) ==
    /\ IF tracked THEN animationFrameRef = "pending" ELSE orphanFrames > 0
    /\ e >= elapsed
    /\ IF gateOpen(e)
       THEN /\ elapsed' = e % interval
            /\ \E res \in executePattern(grid, gridRows, gridCols,
                                         animationState.currentPattern,
                                         animationState.patternState) :
                 /\ animationState' = tickState(animationState, res, maxGenerations)
                 /\ grid' = tickGrid(grid, animationState, res, maxGenerations)
                 /\ fired' = tickFired(animationState, res, maxGenerations)
                 /\ lastTick' = tickOutcome(animationState, res, maxGenerations)
       ELSE /\ elapsed' = e
            /\ UNCHANGED <<grid, animationState>>
            /\ fired' = <<>>
            /\ lastTick' = "gated"
    /\ LET ref == IF tracked THEN "stale" ELSE animationFrameRef
           orphans == IF tracked THEN orphanFrames ELSE orphanFrames - 1
       IN  IF animationState'.isRunning
           THEN /\ animationFrameRef' = "pending"
                /\ orphanFrames' = orphans + (IF ref = "pending" THEN 1 ELSE 0)
                /\ orphanFrames' <= MaxOrphans
           ELSE /\ animationFrameRef' = ref
                /\ orphanFrames' = orphans
    /\ UNCHANGED <<config, effectIsRunning, animateChanged>>

\* ------------------------------------------------------------------ effect
\* the host re-renders with a new onAnimationStop: animate gets a new identity
AnimateIdentityChanged ==
    /\ ~animateChanged
    /\ animateChanged' = TRUE
    /\ fired' = <<>>
    /\ lastTick' = "none"
    /\ UNCHANGED <<config, grid, animationState, animationFrameRef, orphanFrames,
                   elapsed, effectIsRunning>>

\* useEffect(..., [animationState.isRunning, animate]): cleanup of the
\* previous run, then the body
AnimationEffect ==
    /\ animationState.isRunning # effectIsRunning \/ animateChanged
    /\ LET cleaned == CancelledRef(animationFrameRef)
       IN  IF animationState.isRunning
           THEN /\ elapsed' = 0
                /\ animationFrameRef' = "pending"
                /\ orphanFrames' = orphanFrames + (IF cleaned = "pending" THEN 1 ELSE 0)
                /\ orphanFrames' <= MaxOrphans
           ELSE /\ animationFrameRef' = CancelledRef(cleaned)
                /\ UNCHANGED <<orphanFrames, elapsed>>
    /\ effectIsRunning' = animationState.isRunning
    /\ animateChanged' = FALSE
    /\ fired' = <<>>
    /\ lastTick' = "none"
    /\ UNCHANGED <<config, grid, animationState>>

\* the engine driven by any host: every operation of the hook may be called
\* in every state
Next ==
    \/ (\E i \in ClickedLetters : startAnimation(animateLetterPatterns[i + 1], i))
         /\ UNCHANGED <<host, timing, outer>>
    \/ stopAnimation /\ UNCHANGED <<host, timing, outer>>
    \/ (\E p \in Patterns : changePattern(p)) /\ UNCHANGED <<host, timing, outer>>
    \/ resetGrid /\ UNCHANGED <<host, timing, outer>>
    \/ randomizeGrid /\ UNCHANGED <<host, timing, outer>>
    \/ (\E tracked \in BOOLEAN, e \in 0 .. MaxElapsed : animate(tracked, e))
         /\ UNCHANGED <<host, timing, outer>>
    \/ AnimateIdentityChanged /\ UNCHANGED <<host, timing, outer>>
    \/ AnimationEffect /\ UNCHANGED <<host, timing, outer>>

Spec == Init /\ [][Next]_vars

\* ------------------------------------------------------- presentation layer
\* the engine state the adapter leaves alone in a step of its own
engine == <<grid, animationState, animationFrameRef, orphanFrames, elapsed,
            effectIsRunning, animateChanged>>

\* mutant: a click on the active trigger switches the pattern like any other
handleLetterClickNeverStops(index) ==
    IF letterClickDebounceRef
    THEN UNCHANGED <<config, engine, fired, lastTick, host>>
    ELSE /\ letterClickDebounceRef' = TRUE
         /\ showRealData' = FALSE
         /\ lastClick' = index
         /\ IF ~animationState.isRunning
            THEN startAnimation(animateLetterPatterns[index + 1], index)
            ELSE changePattern(animateLetterPatterns[index + 1])

\* mutant: the handler does not look at the debounce timer
handleLetterClickNoDebounce(index) ==
    /\ letterClickDebounceRef' = TRUE
    /\ IF ~animationState.isRunning
       THEN /\ startAnimation(animateLetterPatterns[index + 1], index)
            /\ showRealData' = FALSE
            /\ lastClick' = index
       ELSE IF animationState.activeLetterIndex = index
       THEN /\ stopAnimation
            /\ showRealData' = TRUE
            /\ lastClick' = NoLetter
       ELSE /\ changePattern(animateLetterPatterns[index + 1])
            /\ showRealData' = FALSE
            /\ lastClick' = index

\* handleLetterClick(index): the click is dropped while the debounce timer
\* is armed; otherwise the timer is armed, the display switches to the
\* animation grid and one engine operation is called
handleLetterClick(index) ==
    IF letterClickDebounceRef
    THEN UNCHANGED <<config, engine, fired, lastTick, host>>
    ELSE /\ letterClickDebounceRef' = TRUE
         /\ IF ~animationState.isRunning
            THEN /\ startAnimation(animateLetterPatterns[index + 1], index)
                 /\ showRealData' = FALSE
                 /\ lastClick' = index
            ELSE IF animationState.activeLetterIndex = index
            THEN /\ stopAnimation
                 /\ showRealData' = TRUE
                 /\ lastClick' = NoLetter
            ELSE /\ changePattern(animateLetterPatterns[index + 1])
                 /\ showRealData' = FALSE
                 /\ lastClick' = index

\* the window.setTimeout(..., 120) callback of handleLetterClick
DebounceTimeout ==
    /\ letterClickDebounceRef
    /\ letterClickDebounceRef' = FALSE
    /\ fired' = <<>>
    /\ lastTick' = "none"
    /\ UNCHANGED <<config, engine, showRealData, lastClick>>

\* the Randomize button: rendered in animation mode, disabled while running
RandomizeButton ==
    /\ ~showRealData
    /\ ~animationState.isRunning
    /\ randomizeGrid
    /\ UNCHANGED host

\* the Clear button: rendered in animation mode, disabled while running
ClearButton ==
    /\ ~showRealData
    /\ ~animationState.isRunning
    /\ resetGrid
    /\ UNCHANGED host

\* the Show Real Data button: rendered in animation mode
ShowRealDataButton ==
    /\ ~showRealData
    /\ showRealData' = TRUE
    /\ fired' = <<>>
    /\ lastTick' = "none"
    /\ UNCHANGED <<config, engine, letterClickDebounceRef, lastClick>>

\* the engine driven by ContributionCalendar
AdapterNext ==
    \/ (\E k \in ClickedLetters : handleLetterClick(k)) /\ UNCHANGED <<timing, outer>>
    \/ DebounceTimeout /\ UNCHANGED <<timing, outer>>
    \/ RandomizeButton /\ UNCHANGED <<timing, outer>>
    \/ ClearButton /\ UNCHANGED <<timing, outer>>
    \/ ShowRealDataButton /\ UNCHANGED <<timing, outer>>
    \/ (\E tracked \in BOOLEAN, e \in 0 .. MaxElapsed : animate(tracked, e))
         /\ UNCHANGED <<host, timing, outer>>
    \/ AnimateIdentityChanged /\ UNCHANGED <<host, timing, outer>>
    \/ AnimationEffect /\ UNCHANGED <<host, timing, outer>>

AdapterSpec == Init /\ [][AdapterNext]_vars

\* ------------------------------------------------------------------ timing
\* ms since the last committed step once a frame has run with now -
\* lastUpdateTimeRef = e; it is enough to know whether interval was reached
timePassed(e) ==
    IF sinceCommit = NoTime THEN NoTime
    ELSE IF sinceCommit + (e - elapsed) > interval THEN interval
    ELSE sinceCommit + (e - elapsed)

\* a frame runs animate while the clock of TimingSpec measures
timedAnimate(tracked, e) ==
    /\ animate(tracked, e)
    /\ IF lastTick' = "commit"
       THEN /\ commitGap' = timePassed(e)
            /\ sinceCommit' = 0
       ELSE /\ sinceCommit' = timePassed(e)
            /\ UNCHANGED commitGap

\* one engine, its frames arriving at any ms up to two intervals late
TimingNext ==
    \/ (\E i \in ClickedLetters : startAnimation(animateLetterPatterns[i + 1], i))
         /\ UNCHANGED <<host, timing, outer>>
    \/ stopAnimation /\ UNCHANGED <<host, timing, outer>>
    \/ (\E tracked \in BOOLEAN, e \in 0 .. (2 * interval - 1) : timedAnimate(tracked, e))
         /\ UNCHANGED <<host, outer>>
    \/ AnimationEffect /\ UNCHANGED <<host, timing, outer>>

TimingSpec == Mounted(TimingSpeed) /\ [][TimingNext]_vars

\* ---------------------------------------------------------------- fetching
\* everything fetching leaves alone
hook == <<config, engine, fired, lastTick, host, timing, failure>>

\* the times (ms) that pass between two steps of the component
Delays == {400, 700}

\* mutant: the rate limit test is gone
throttledNever(since) == FALSE

\* now - lastRequestTimeRef.current < 1000
throttled(since) == since < ThrottleWindow

\* mutant: the request is sent without a look at the credentials
fetchOutcomeNoCredentialsTest(busy, since, creds) ==
    IF busy THEN "busy"
    ELSE IF throttled(since) THEN "throttled"
    ELSE "sent"

\* the early returns of fetchGithubContributions, in the order of the code;
\* busy is the isFetching its closure captured
fetchOutcome(busy, since, creds) ==
    IF busy THEN "busy"
    ELSE IF throttled(since) THEN "throttled"
    ELSE IF ~creds THEN "nocreds"
    ELSE "sent"

\* fetchGithubContributions() up to its await of fetch(): a call that passes
\* the early returns stamps lastRequestTimeRef, sets isFetching and
\* isLoading, clears error and sends the request
fetchGithubContributions(busy, auto) ==
    LET outcome == fetchOutcome(busy, sinceRequest, credentials)
    IN  /\ lastAttempt' = outcome
        /\ IF outcome = "sent"
           THEN /\ requests < MaxRequests
                /\ isFetching' = TRUE
                /\ sentGap' = IF requests = 0 THEN NoTime ELSE sinceRequest
                /\ sinceRequest' = 0
                /\ isLoading' = TRUE
                /\ error' = "null"
                /\ inFlight' = TRUE
                /\ requests' = requests + 1
                /\ autoRequests' = autoRequests + (IF auto THEN 1 ELSE 0)
                /\ UNCHANGED data
           ELSE UNCHANGED <<isFetching, sentGap, sinceRequest, isLoading, error,
                            inFlight, requests, autoRequests, data>>

\* mutant: the effect arms the timer on every run
initialEffectArmsAlways(initialized) == TRUE

\* if (!hasInitialized.current)
initialEffectArms(initialized) == ~initialized

\* useEffect(..., [fetchGithubContributions]): it runs after the mount and
\* after every render that changed the callback; the cleanup of the run that
\* armed the timer clears it
InitialFetchEffect ==
    /\ ~hasInitialized \/ fetchChanged
    /\ IF initialEffectArms(hasInitialized)
       THEN /\ initialTimer' = "armed"
            /\ timerIsFetching' = closureIsFetching
       ELSE /\ initialTimer' = IF initialTimer = "armed" THEN "cleared" ELSE initialTimer
            /\ UNCHANGED timerIsFetching
    /\ hasInitialized' = TRUE
    /\ fetchChanged' = FALSE
    /\ lastAttempt' = "none"
    /\ UNCHANGED <<hook, credentials, isLoading, error, data, isFetching,
                   closureIsFetching, sinceRequest, inFlight, requests, autoRequests,
                   sentGap>>

\* the setTimeout(..., 100) callback of the effect calls the callback the
\* effect closed over
InitialTimeout ==
    /\ initialTimer = "armed"
    /\ initialTimer' = "fired"
    /\ fetchGithubContributions(timerIsFetching, TRUE)
    /\ UNCHANGED <<hook, credentials, closureIsFetching, timerIsFetching,
                   hasInitialized, fetchChanged>>

\* the Retry button: rendered when isLoading is false and error is set
RetryClick ==
    /\ ~isLoading
    /\ error # "null"
    /\ fetchGithubContributions(closureIsFetching, FALSE)
    /\ UNCHANGED <<hook, credentials, closureIsFetching, timerIsFetching,
                   hasInitialized, initialTimer, fetchChanged>>

\* a render with a changed dependency of useCallback (a prop, or the default
\* startDate and endDate, which are new objects in every render): the new
\* fetchGithubContributions captures the isFetching of that render
FetchIdentityChanged ==
    /\ ~fetchChanged
    /\ fetchChanged' = TRUE
    /\ closureIsFetching' = isFetching
    /\ lastAttempt' = "none"
    /\ UNCHANGED <<hook, credentials, isLoading, error, data, isFetching,
                   timerIsFetching, sinceRequest, inFlight, hasInitialized,
                   initialTimer, requests, autoRequests, sentGap>>

\* the response arrives and holds the contribution weeks
ResponseLoaded ==
    /\ inFlight
    /\ inFlight' = FALSE
    /\ data' = "loaded"
    /\ isLoading' = FALSE
    /\ isFetching' = FALSE
    /\ lastAttempt' = "none"
    /\ UNCHANGED <<hook, credentials, error, closureIsFetching, timerIsFetching,
                   sinceRequest, hasInitialized, initialTimer, fetchChanged, requests,
                   autoRequests, sentGap>>

\* the request fails, or its response is an error: the catch block
ResponseFailed ==
    /\ inFlight
    /\ inFlight' = FALSE
    /\ error' = "message"
    /\ isLoading' = FALSE
    /\ isFetching' = FALSE
    /\ lastAttempt' = "none"
    /\ UNCHANGED <<hook, credentials, data, closureIsFetching, timerIsFetching,
                   sinceRequest, hasInitialized, initialTimer, fetchChanged, requests,
                   autoRequests, sentGap>>

\* Date.now() moves on; it is enough to know whether ThrottleWindow was reached
TimePasses ==
    /\ sinceRequest < ThrottleWindow
    /\ \E d \in Delays :
         sinceRequest' = IF sinceRequest + d > ThrottleWindow THEN ThrottleWindow
                         ELSE sinceRequest + d
    /\ lastAttempt' = "none"
    /\ UNCHANGED <<hook, credentials, isLoading, error, data, isFetching,
                   closureIsFetching, timerIsFetching, inFlight, hasInitialized,
                   initialTimer, fetchChanged, requests, autoRequests, sentGap>>

\* one mounted ContributionCalendar, with or without credentials
FetchInit ==
    /\ HookMounted(animationSpeed)
    /\ gridRows = 2 /\ gridCols = 2
    /\ maxGenerations = MaxGenLimit
    /\ stableCallbacks
    /\ credentials \in BOOLEAN
    /\ CalendarMounted

FetchNext ==
    \/ InitialFetchEffect
    \/ InitialTimeout
    \/ RetryClick
    \/ FetchIdentityChanged
    \/ ResponseLoaded
    \/ ResponseFailed
    \/ TimePasses

FetchSpec == FetchInit /\ [][FetchNext]_vars

\* React runs every effect it has scheduled, and the browser fires a timer
\* that stays armed
FetchLiveSpec ==
    /\ FetchInit
    /\ [][FetchNext]_vars
    /\ WF_vars(InitialFetchEffect)
    /\ WF_vars(InitialTimeout)

\* ------------------------------------------------------------- termination
\* React runs the passive effects of a render before it handles the next
\* user event
EffectsFlushed == animationState.isRunning = effectIsRunning /\ ~animateChanged

\* a frame whose elapsed time passes the gate
ungatedFrame ==
    \E e \in (interval + 1) .. MaxElapsed : animate(TRUE, e)

\* a frame that arrives before the step interval has elapsed
gatedFrame ==
    \E e \in 0 .. interval : animate(TRUE, e)

\* an engine that is started when idle and then left to its frames, or
\* stopped by its host
LiveNext ==
    \/ (\E i \in ClickedLetters : startAnimation(animateLetterPatterns[i + 1], i))
         /\ ~animationState.isRunning /\ EffectsFlushed
         /\ UNCHANGED <<host, timing, outer>>
    \/ stopAnimation /\ animationState.isRunning /\ EffectsFlushed
         /\ UNCHANGED <<host, timing, outer>>
    \/ ungatedFrame /\ UNCHANGED <<host, timing, outer>>
    \/ gatedFrame /\ UNCHANGED <<host, timing, outer>>
    \/ AnimationEffect /\ UNCHANGED <<host, timing, outer>>

\* the browser runs every requested frame and time goes on, so a pending
\* frame is eventually followed by one that finds the interval elapsed; React
\* runs every scheduled effect
LiveSpec ==
    /\ Init
    /\ [][LiveNext]_vars
    /\ WF_vars(ungatedFrame /\ UNCHANGED <<host, timing, outer>>)
    /\ WF_vars(AnimationEffect /\ UNCHANGED <<host, timing, outer>>)

\* ------------------------------------------------------- the step functions
\* the dimensions of the engines whose steps are followed cell by cell
StepShapes == {<<3, 3>>, <<1, 4>>, <<1, 5>>}

\* the letter triggers of Game of Life and Rule 30
StepLetters == {0, 4}

\* an engine of one of shapes that holds a grid of cells and was started
\* with one of letters, its first frame requested
StartedOn(shapes, letters, cells) ==
    /\ \E shape \in shapes : gridRows = shape[1] /\ gridCols = shape[2]
    /\ maxGenerations = MaxGenLimit
    /\ interval = animationSpeed
    /\ stableCallbacks = TRUE
    /\ grid \in [RowIdx(gridRows) -> [ColIdx(gridCols) -> cells]]
    /\ \E i \in letters :
         animationState = startState(InitialState, animateLetterPatterns[i + 1], i,
                                     createEmptyGrid)
    /\ animationFrameRef = "pending"
    /\ orphanFrames = 0
    /\ elapsed = 0
    /\ effectIsRunning = TRUE
    /\ animateChanged = FALSE
    /\ fired = <<>>
    /\ lastTick = "none"
    /\ showRealData = TRUE
    /\ letterClickDebounceRef = FALSE
    /\ lastClick = NoLetter
    /\ sinceCommit = NoTime
    /\ commitGap = NoTime
    /\ failure = "none"
    /\ credentials = TRUE
    /\ CalendarMounted

\* an engine whose grid was randomized (each cell is drawn on its own, so
\* every 0/1 grid can come up) and that was then started with Game of Life
\* or Rule 30
StepInit == StartedOn(StepShapes, StepLetters, {0, 1})

\* the frames of that engine, and a switch to Rule 30 that seeds the grid
StepNext ==
    \/ ungatedFrame /\ UNCHANGED <<host, timing, outer>>
    \/ changePattern("rule30") /\ UNCHANGED <<host, timing, outer>>

StepSpec == StepInit /\ [][StepNext]_vars

\* the letter triggers of noise, wave, spiral, rule30, rain and ripple
OtherLetters == 1 .. 6

\* the step functions other than Game of Life applied to any grid of
\* integers 0..MaxCell, as the frames of an engine would apply them
AnyGridInit == StartedOn(GridShapes, OtherLetters, 0 .. MaxCell)

AnyGridNext == ungatedFrame /\ UNCHANGED <<host, timing, outer>>

AnyGridSpec == AnyGridInit /\ [][AnyGridNext]_vars

\* ------------------------------------------------------------ construction
\* the dimensions an engine may be constructed with, malformed ones included
ConfigShapes == {<<0, 3>>, <<-1, 2>>, <<2, -1>>, <<2, 2>>}

\* new Array(n) throws a RangeError for a negative n
arrayThrows(n) == n < 0

\* the useState initialiser of grid: new Array(rows), then new Array(cols)
\* once per row
constructThrows(rows, cols) == arrayThrows(rows) \/ (rows > 0 /\ arrayThrows(cols))

\* useAnimationPatterns({rows, cols}) as called with any of ConfigShapes: no
\* test of rows or cols precedes the allocation of the grid
Constructed ==
    /\ \E shape \in ConfigShapes : gridRows = shape[1] /\ gridCols = shape[2]
    /\ maxGenerations = MaxGenLimit
    /\ interval = animationSpeed
    /\ stableCallbacks \in BOOLEAN
    /\ IF constructThrows(gridRows, gridCols)
       THEN failure = "RangeError" /\ grid = <<>>
       ELSE failure = "none" /\ grid = createEmptyGrid
    /\ animationState = InitialState
    /\ animationFrameRef = "null"
    /\ orphanFrames = 0
    /\ elapsed = 0
    /\ effectIsRunning = FALSE
    /\ animateChanged = FALSE
    /\ fired = <<>>
    /\ lastTick = "none"
    /\ showRealData = TRUE
    /\ letterClickDebounceRef = FALSE
    /\ lastClick = NoLetter
    /\ sinceCommit = NoTime
    /\ commitGap = NoTime
    /\ credentials = TRUE
    /\ CalendarMounted

\* newGrid[Math.floor(rows / 2)] is undefined when the grid has no such row,
\* and the write of the seed cell into it throws a TypeError
seedThrows(pattern, rows) == pattern = "rule30" /\ (rows \div 2) \notin RowIdx(rows)

\* changePattern(pattern) on an engine of any dimensions: the state update
\* and the notification precede the seeding of the grid
checkedChangePattern(pattern) ==
    IF seedThrows(pattern, gridRows)
    THEN /\ animationState' = changeState(animationState, pattern)
         /\ fired' = <<PatternChanged(pattern)>>
         /\ failure' = "TypeError"
         /\ lastTick' = "none"
         /\ UNCHANGED <<config, grid, animationFrameRef, orphanFrames, elapsed,
                        effectIsRunning, animateChanged>>
    ELSE /\ changePattern(pattern)
         /\ failure' = "none"

\* the construction returned an engine
Operating == failure # "RangeError"

\* the operations of an engine that was constructed, whatever its dimensions
ConfigNext ==
    \/ (\E i \in ClickedLetters : startAnimation(animateLetterPatterns[i + 1], i))
         /\ Operating /\ failure' = "none" /\ UNCHANGED <<host, timing, fetching>>
    \/ stopAnimation /\ Operating /\ failure' = "none"
         /\ UNCHANGED <<host, timing, fetching>>
    \/ (\E p \in Patterns : checkedChangePattern(p)) /\ Operating
         /\ UNCHANGED <<host, timing, fetching>>
    \/ resetGrid /\ Operating /\ failure' = "none"
         /\ UNCHANGED <<host, timing, fetching>>
    \/ randomizeGrid /\ Operating /\ failure' = "none"
         /\ UNCHANGED <<host, timing, fetching>>

ConfigSpec == Constructed /\ [][ConfigNext]_vars

\* ------------------------------------------- a pattern without a step function
\* an engine that runs the pattern image, a member of AnimationPattern that
\* executePattern has no case for, on any grid of integers 0..MaxCell, its
\* first frame requested
ImageInit ==
    /\ \E shape \in GridShapes : gridRows = shape[1] /\ gridCols = shape[2]
    /\ maxGenerations \in {0, MaxGenLimit}
    /\ interval = animationSpeed
    /\ stableCallbacks = TRUE
    /\ grid \in [RowIdx(gridRows) -> [ColIdx(gridCols) -> 0 .. MaxCell]]
    /\ \E i \in ClickedLetters :
         animationState =
           changeState(startState(InitialState, animateLetterPatterns[i + 1], i,
                                  createEmptyGrid), "image")
    /\ animationFrameRef = "pending"
    /\ orphanFrames = 0
    /\ elapsed = 0
    /\ effectIsRunning = TRUE
    /\ animateChanged = FALSE
    /\ fired = <<>>
    /\ lastTick = "none"
    /\ showRealData = FALSE
    /\ letterClickDebounceRef = FALSE
    /\ lastClick = NoLetter
    /\ sinceCommit = NoTime
    /\ commitGap = NoTime
    /\ failure = "none"
    /\ credentials = TRUE
    /\ CalendarMounted

\* the frames of that engine, early or not, and a switch to image by its host
ImageNext ==
    \/ ungatedFrame /\ UNCHANGED <<host, timing, outer>>
    \/ gatedFrame /\ UNCHANGED <<host, timing, outer>>
    \/ changePattern("image") /\ UNCHANGED <<host, timing, outer>>

ImageSpec == ImageInit /\ [][ImageNext]_vars

\* --------------------------------------------------------------------- rain
\* the dimensions of the engines whose rain is followed drop by drop
RainShapes == {<<3, 2>>, <<1, 2>>}

\* the letter trigger of rain
RainLetters == {5}

\* an engine whose grid was randomized and that was then started with rain
RainInit == StartedOn(RainShapes, RainLetters, {0, 1})

RainNext == ungatedFrame /\ UNCHANGED <<host, timing, outer>>

RainSpec == RainInit /\ [][RainNext]_vars

\* ------------------------------------------------------------------- ripple
\* an engine of one cell started with ripple (letter trigger 6) from the
\* all-zero grid, its first frame requested, that runs for up to
\* RippleGenerations steps
RippleInit ==
    /\ gridRows = 1 /\ gridCols = 1
    /\ maxGenerations = RippleGenerations
    /\ interval = animationSpeed
    /\ stableCallbacks = TRUE
    /\ grid = createEmptyGrid
    /\ animationState = startState(InitialState, animateLetterPatterns[7], 6,
                                   createEmptyGrid)
    /\ animationFrameRef = "pending"
    /\ orphanFrames = 0
    /\ elapsed = 0
    /\ effectIsRunning = TRUE
    /\ animateChanged = FALSE
    /\ fired = <<>>
    /\ lastTick = "none"
    /\ showRealData = FALSE
    /\ letterClickDebounceRef = FALSE
    /\ lastClick = 6
    /\ sinceCommit = NoTime
    /\ commitGap = NoTime
    /\ failure = "none"
    /\ credentials = TRUE
    /\ CalendarMounted

RippleNext == ungatedFrame /\ UNCHANGED <<host, timing, outer>>

RippleSpec == RippleInit /\ [][RippleNext]_vars

\* --------------------------------------------------------------- auto-stops
\* the letter triggers of Game of Life, whose run ends when the grid is
\* stable, and of ripple, whose run ends at the generation limit
AutoStopLetters == {0, 6}

\* ContributionCalendar with clicks on those triggers, the engine left to
\* its frames between them
AutoStopNext ==
    \/ (\E k \in AutoStopLetters : handleLetterClick(k)) /\ UNCHANGED <<timing, outer>>
    \/ DebounceTimeout /\ UNCHANGED <<timing, outer>>
    \/ ungatedFrame /\ UNCHANGED <<host, timing, outer>>
    \/ AnimationEffect /\ UNCHANGED <<host, timing, outer>>

AutoStopSpec == Init /\ [][AutoStopNext]_vars

\* ------------------------------------------------------------------- starts
\* an engine holding any 0/1 grid, the all-zero grid it mounts with among
\* them, that was started with Game of Life or Rule 30 and is started again
\* with either at any time, and its frames
StartNext ==
    \/ (\E i \in StepLetters : startAnimation(animateLetterPatterns[i + 1], i))
         /\ UNCHANGED <<host, timing, outer>>
    \/ ungatedFrame /\ UNCHANGED <<host, timing, outer>>
    \/ gatedFrame /\ UNCHANGED <<host, timing, outer>>
    \/ AnimationEffect /\ UNCHANGED <<host, timing, outer>>

StartSpec == StepInit /\ [][StartNext]_vars

TypeOK ==
    /\ grid \in Grids(gridRows, gridCols)
    /\ animationState.generation \in 0 .. MaxGenLimit
    /\ animationFrameRef \in {"null", "pending", "stale"}
    /\ orphanFrames \in 0 .. MaxOrphans

\* ------------------------------------------------------- steps, for claims
StartStep == \E i \in ClickedLetters : startAnimation(animateLetterPatterns[i + 1], i)
ChangeStep == \E p \in Patterns : changePattern(p)
\* one of the four operations that restart the count of generations
ResetStep == StartStep \/ ChangeStep \/ resetGrid \/ randomizeGrid
\* a click on trigger k got past the debounce
AcceptedClick(k) == ~letterClickDebounceRef /\ handleLetterClick(k)
\* a frame ran animate
TickStep == lastTick' # "none"
\* a frame ran animate and the interval gate was open
UngatedTickStep == lastTick' \notin {"none", "gated"}

\* ------------------------------------------------------------------ claims

\* C1: a start made while the engine is not running, followed by stop(),
\* leaves the live grid equal to the live grid that existed before that
\* start (stated for the stop that directly follows the start).
C1_BaselineRoundTrip ==
    [][(StartStep /\ ~animationState.isRunning)
          => stopGrid(animationState', grid') = grid]_vars

\* C2: after stop() the baseline is cleared, isRunning is false and no
\* trigger is active.
C2_StopClearsBaseline ==
    [][stopAnimation => /\ animationState'.baselineGrid = <<>>
                        /\ ~animationState'.isRunning
                        /\ animationState'.activeLetterIndex = NoLetter]_vars

\* C3: a captured baseline is not changed by a tick, by changePattern or by
\* a start made while a baseline exists.
C3_BaselineKept ==
    [][((TickStep \/ ChangeStep \/ StartStep) /\ animationState.baselineGrid # <<>>)
          => animationState'.baselineGrid = animationState.baselineGrid]_vars

\* a start was made while a baseline existed whose cells differ from the
\* grid the start would have captured
C3_Witness ==
    /\ fired # <<>> /\ fired[1].type = "started"
    /\ animationState.baselineGrid # <<>>
    /\ animationState.baselineGrid[1] # closureGrid

\* C4: a committed tick adds exactly 1 to generation; start, changePattern,
\* reset and randomize set it to 0 (generation is not 0 only after a step
\* that is none of them); every other step leaves it alone (generation
\* changes only in a committed tick or one of those four).
C4_GenerationCounts ==
    [][/\ (lastTick' = "commit"
             => animationState'.generation = animationState.generation + 1)
       /\ (animationState'.generation # 0 => ~ResetStep)
       /\ (animationState'.generation # animationState.generation
             => (lastTick' = "commit" \/ ResetStep))]_vars

\* two ticks were committed in a row
C4_Witness == lastTick = "commit" /\ animationState.generation = 2

\* C5: isRunning implies an active trigger index.
C5_RunningHasLetter ==
    animationState.isRunning => animationState.activeLetterIndex # NoLetter

\* stopped by stop() after a run: no trigger, not running
C5_Witness ==
    /\ ~animationState.isRunning
    /\ animationState.activeLetterIndex = NoLetter
    /\ fired = <<Stopped>>
    /\ animationState.baselineGrid # <<>>

\* C6: a step that changes currentPattern leaves patternState empty and
\* generation 0.
C6_PatternChangeResets ==
    [][animationState'.currentPattern # animationState.currentPattern
          => /\ animationState'.patternState = EmptyState
             /\ animationState'.generation = 0]_vars

\* the pattern was switched while running
C6_Witness ==
    /\ fired = <<PatternChanged("spiral")>>
    /\ animationState.isRunning
    /\ animationState.currentPattern = "spiral"
    /\ animationState.patternState = EmptyState

\* C7: an ungated tick on a running Game of Life whose step reports no
\* change leaves grid, generation and patternState alone, clears isRunning
\* and fires stopped.
C7_StableLifeStops ==
    [][(/\ UngatedTickStep
        /\ animationState.isRunning
        /\ animationState.currentPattern = "gameOfLife"
        /\ \A res \in gameOfLifeStep(grid, gridRows, gridCols) : ~res.hasChanged)
          => /\ grid' = grid
             /\ animationState'.generation = animationState.generation
             /\ animationState'.patternState = animationState.patternState
             /\ ~animationState'.isRunning
             /\ fired' = <<Stopped>>]_vars

\* a stable grid with live cells stopped the run below the generation limit
C7_Witness ==
    /\ lastTick = "stabilized"
    /\ grid # createEmptyGrid
    /\ animationState.generation < maxGenerations

\* C8: generation never exceeds maxGenerations; an ungated tick at the
\* limit commits nothing, clears isRunning and fires stopped; with
\* maxGenerations = 0 no tick changes the grid or generation.
C8_GenerationLimit ==
    [][/\ animationState'.generation <= maxGenerations'
       /\ ((/\ UngatedTickStep
            /\ animationState.isRunning
            /\ animationState.generation = maxGenerations)
             => /\ grid' = grid
                /\ animationState'.generation = animationState.generation
                /\ ~animationState'.isRunning
                /\ fired' = <<Stopped>>)
       /\ ((maxGenerations = 0 /\ TickStep)
             => /\ grid' = grid
                /\ animationState'.generation = animationState.generation)]_vars

\* a run of a pattern other than Game of Life was stopped at the limit
C8_Witness ==
    /\ lastTick = "limit"
    /\ animationState.currentPattern = "noise"
    /\ animationState.generation = maxGenerations
    /\ maxGenerations = MaxGenLimit

\* C9: a frame that runs while isRunning is false changes neither grid,
\* generation nor patternState and requests no frame; no tick commits while
\* isRunning is false.
C9_Cancellation ==
    [][/\ ((TickStep /\ ~animationState.isRunning)
             => /\ grid' = grid
                /\ animationState'.generation = animationState.generation
                /\ animationState'.patternState = animationState.patternState
                /\ PendingOf(animationFrameRef', orphanFrames') = PendingFrames - 1)
       /\ (lastTick' = "commit" => animationState.isRunning)]_vars

\* a frame ran with the gate open after the engine was stopped
C9_Witness == lastTick = "cancelled" /\ animationState.activeLetterIndex = NoLetter

\* C10: at most one animation frame is pending.
C10_OneLoop == PendingFrames <= 1

\* start was called while a frame was pending
C10_Witness ==
    /\ fired # <<>> /\ fired[1].type = "started"
    /\ animationFrameRef = "pending"

\* C11: any two consecutively committed steps are at least animationSpeed
\* ms of real time apart.
C11_MinimumInterval == commitGap = NoTime \/ commitGap >= interval

\* C12: an accepted click on trigger k with pattern p = table[k] calls
\* start(p, k) if the engine is not running, stop() if it runs with
\* activeLetterIndex = k, and changePattern(p) otherwise, which leaves it
\* running; the engine changes as by exactly that operation.
C12_ClickDispatch ==
    [][/\ animateLetterPatterns = <<"gameOfLife", "noise", "wave", "spiral",
                                    "rule30", "rain", "ripple", "gameOfLife">>
       /\ \A k \in ClickedLetters :
            AcceptedClick(k)
              => IF ~animationState.isRunning
                 THEN startAnimation(animateLetterPatterns[k + 1], k)
                 ELSE IF animationState.activeLetterIndex = k
                 THEN stopAnimation
                 ELSE /\ changePattern(animateLetterPatterns[k + 1])
                      /\ animationState'.isRunning]_vars

\* a click on trigger 1 switched the pattern of the run trigger 0 started
C12_Witness ==
    /\ fired = <<PatternChanged("noise")>>
    /\ animationState.isRunning
    /\ animationState.activeLetterIndex = 0
    /\ letterClickDebounceRef
    /\ ~showRealData

\* C13: if the last accepted click was on trigger k and left the animation
\* running, the next accepted click on k stops it (isRunning false, no
\* active trigger, grid restored to the baseline) and shows the data grid.
C13_SameLetterPauses ==
    [][\A k \in ClickedLetters :
         (AcceptedClick(k) /\ lastClick = k /\ animationState.isRunning)
           => /\ ~animationState'.isRunning
              /\ animationState'.activeLetterIndex = NoLetter
              /\ grid' = stopGrid(animationState, grid)
              /\ showRealData']_vars

\* C14: while the debounce timer is armed no step calls start, stop or
\* changePattern and a click changes nothing; a click made when the timer
\* is not armed arms it and calls one of the three.
C14_Debounce ==
    [][/\ letterClickDebounceRef => ~(StartStep \/ stopAnimation \/ ChangeStep)
       /\ \A k \in ClickedLetters :
            /\ (letterClickDebounceRef /\ handleLetterClick(k))
                  => UNCHANGED <<engine, host>>
            /\ AcceptedClick(k)
                  => /\ letterClickDebounceRef'
                     /\ (StartStep \/ stopAnimation \/ ChangeStep)]_vars

\* a second click was accepted after the timer of the first had expired:
\* the click that stopped the run a click had started
C14_Witness ==
    /\ letterClickDebounceRef
    /\ fired = <<Stopped>>
    /\ showRealData
    /\ lastTick = "none"

\* C15: whenever the stopped notification fires, the display shows the
\* data grid.
C15_StoppedShowsData == [][fired' = <<Stopped>> => showRealData']_vars

\* C16: changePattern(p) sets the grid to some 0/1 grid of the configured
\* size for gameOfLife and noise, to zeros with a single 1 at
\* (rows \div 2, cols \div 2) for rule30, and to all zeros for every other
\* pattern, whatever the grid was.
C16_Reseed ==
    [][\A p \in Patterns :
         changePattern(p)
           => IF p \in {"gameOfLife", "noise"}
              THEN grid' \in Grids(gridRows, gridCols)
              ELSE \A r \in RowIdx(gridRows), c \in ColIdx(gridCols) :
                     grid'[r][c] = IF p = "rule30" /\ r = gridRows \div 2
                                                   /\ c = gridCols \div 2
                                   THEN 1 ELSE 0]_vars

\* a switch to rule30 seeded the centre of a 2 x 2 grid
C16_Witness ==
    /\ fired = <<PatternChanged("rule30")>>
    /\ gridCols = 2
    /\ grid[gridRows \div 2][gridCols \div 2] = 1

\* C17: changePattern leaves isRunning, activeLetterIndex and baselineGrid
\* unchanged, running or not.
C17_ChangePatternFrame ==
    [][ChangeStep
         => /\ animationState'.isRunning = animationState.isRunning
            /\ animationState'.activeLetterIndex = animationState.activeLetterIndex
            /\ animationState'.baselineGrid = animationState.baselineGrid]_vars

\* the pattern was switched on an engine stopped after a run
C17_Witness ==
    /\ fired # <<>> /\ fired[1].type = "patternChanged"
    /\ ~animationState.isRunning
    /\ animationState.baselineGrid # <<>>

\* C18: reset and randomize clear isRunning, generation, patternState and
\* activeLetterIndex and leave baselineGrid and currentPattern; reset gives
\* the all-zero grid, randomize some 0/1 grid of the configured size.
C18_ResetRandomize ==
    [][/\ (resetGrid \/ randomizeGrid)
            => /\ ~animationState'.isRunning
               /\ animationState'.generation = 0
               /\ animationState'.patternState = EmptyState
               /\ animationState'.activeLetterIndex = NoLetter
               /\ animationState'.baselineGrid = animationState.baselineGrid
               /\ animationState'.currentPattern = animationState.currentPattern
       /\ resetGrid => \A r \in RowIdx(gridRows), c \in ColIdx(gridCols) : grid'[r][c] = 0
       /\ randomizeGrid => grid' \in Grids(gridRows, gridCols)]_vars

\* reset or randomize was the last step, on a running engine with a
\* baseline (the effect has not yet seen isRunning go false)
C18_Witness ==
    /\ ~animationState.isRunning
    /\ effectIsRunning
    /\ ~animateChanged
    /\ fired = <<>>
    /\ lastTick = "none"
    /\ animationState.activeLetterIndex = NoLetter
    /\ animationState.currentPattern = "noise"
    /\ animationState.baselineGrid # <<>>
    /\ grid # animationState.baselineGrid[1]

\* C19: stop() on an engine that was never started leaves the grid and the
\* AnimationState as they were, and a second stop() right after any stop()
\* gives the same grid and AnimationState as the first.
C19_StopIdempotent ==
    [][stopAnimation
         => /\ animationState.baselineGrid = <<>>
                 => (grid' = grid /\ animationState' = animationState)
            /\ stopState(animationState') = animationState'
            /\ stopGrid(animationState', grid') = grid']_vars

\* stop() was called on an engine never started whose grid has live cells
C19_Witness ==
    /\ fired = <<Stopped>>
    /\ animationState.baselineGrid = <<>>
    /\ grid # createEmptyGrid

\* C20: start fires exactly started(p), changePattern exactly
\* pattern-changed(p), a step by stop() or an auto-stop that takes isRunning
\* from true to false exactly stopped(), in that same step; reset,
\* randomize and committed or gated ticks fire nothing.
C20_Notifications ==
    [][/\ \A i \in ClickedLetters :
            \/ fired' = <<Started(animateLetterPatterns[i + 1])>>
            \/ ~startAnimation(animateLetterPatterns[i + 1], i)
       /\ \A p \in Patterns : fired' = <<PatternChanged(p)>> \/ ~changePattern(p)
       /\ \/ fired' = <<Stopped>>
          \/ ~animationState.isRunning
          \/ animationState'.isRunning
          \/ resetGrid
          \/ randomizeGrid
       /\ \/ fired' = <<>>
          \/ ~(resetGrid \/ randomizeGrid \/ lastTick' \in {"commit", "gated"})]_vars

\* an auto-stop of the run trigger 1 started fired stopped
C20_Witness ==
    /\ lastTick \in {"stabilized", "limit"}
    /\ fired = <<Stopped>>
    /\ ~animationState.isRunning
    /\ animationState.activeLetterIndex = 1

\* C21: an engine asked for non-positive rows or cols is rejected when it is
\* constructed (any exception thrown by the construction counts as the
\* rejection), and no operation of a constructed engine throws because of
\* its dimensions.
C21_ConfigRejected ==
    /\ (gridRows <= 0 \/ gridCols <= 0) => failure = "RangeError"
    /\ failure # "TypeError"

\* C22: a started engine left to fairly delivered frames eventually has
\* isRunning = FALSE; a frame that finds generation = maxGenerations, or a
\* Game of Life step without a change, ends the run and requests no further
\* frame; and whenever isRunning is FALSE the pending frames go away unless
\* the engine is started again.
C22_Termination ==
    /\ animationState.isRunning ~> ~animationState.isRunning
    /\ ~animationState.isRunning ~> (PendingFrames = 0 \/ animationState.isRunning)
    /\ [][(/\ animationState.isRunning
           /\ lastTick' \in {"commit", "stabilized", "limit"}
           /\ \/ animationState.generation = maxGenerations
              \/ /\ animationState.currentPattern = "gameOfLife"
                 /\ \A res \in gameOfLifeStep(grid, gridRows, gridCols) : ~res.hasChanged)
          => (~animationState'.isRunning /\ PendingFrames' = 0)]_vars

C22_Witness ==
    /\ ~animationState.isRunning
    /\ lastTick = "limit"
    /\ animationState.generation = maxGenerations
    /\ maxGenerations = MaxGenLimit
    /\ PendingFrames = 0
    /\ animationFrameRef = "stale"

\* C23: two requests a component sends start at least 1000 ms apart, and a
\* call of fetchGithubContributions less than 1000 ms after the last sent
\* request sends nothing and leaves isLoading, error and data as they are.
C23_Throttle ==
    /\ [](sentGap = NoTime \/ sentGap >= ThrottleWindow)
    /\ [][(lastAttempt' # "none" /\ requests > 0 /\ sinceRequest < ThrottleWindow)
            => (/\ lastAttempt' # "sent"
                /\ UNCHANGED <<requests, inFlight, isLoading, error, data>>)]_vars

C23_Witness ==
    /\ requests >= 2
    /\ sentGap >= ThrottleWindow
    /\ lastAttempt = "throttled"
    /\ sinceRequest < ThrottleWindow

\* C24: one mount sends at most one request from the initial-fetch timer,
\* however often fetchGithubContributions changes its identity; every other
\* request is sent by a click on Retry.
C24_NoRequestLoop ==
    /\ [](autoRequests <= 1)
    /\ [][requests' # requests
            => \/ initialTimer = "armed" /\ initialTimer' = "fired" /\ autoRequests = 0
               \/ ~isLoading /\ error # "null" /\ autoRequests' = autoRequests]_vars

C24_Witness ==
    /\ autoRequests = 1
    /\ requests >= 2
    /\ closureIsFetching
    /\ hasInitialized
    /\ ~fetchChanged

\* C25: on every 0/1 grid the Game of Life step is the automaton with a
\* dead boundary (a live cell survives with 2 or 3 live cells among its
\* in-bounds neighbours, a dead cell is born with exactly 3), and a running
\* engine turns a 3-cell blinker into the other blinker by a committed step,
\* so that two committed steps bring it back.
C25_LifeReference ==
    /\ [](LET near(r, c) ==
                 {q \in RowIdx(gridRows) \X ColIdx(gridCols) :
                     /\ q # <<r, c>>
                     /\ q[1] - r \in {-1, 0, 1}
                     /\ q[2] - c \in {-1, 0, 1}
                     /\ grid[q[1]][q[2]] = 1}
             reference ==
                 [r \in RowIdx(gridRows) |-> [c \in ColIdx(gridCols) |->
                     IF grid[r][c] = 1
                     THEN (IF Cardinality(near(r, c)) \in {2, 3} THEN 1 ELSE 0)
                     ELSE (IF Cardinality(near(r, c)) = 3 THEN 1 ELSE 0)]]
         IN  \A res \in gameOfLifeStep(grid, gridRows, gridCols) :
                 res.newGrid = reference)
    /\ [][LET upright == [r \in 0 .. 2 |-> [c \in 0 .. 2 |-> IF c = 1 THEN 1 ELSE 0]]
              flat == [r \in 0 .. 2 |-> [c \in 0 .. 2 |-> IF r = 1 THEN 1 ELSE 0]]
          IN  (/\ animationState.isRunning
               /\ animationState.currentPattern = "gameOfLife"
               /\ animationState.generation < maxGenerations
               /\ lastTick' \notin {"none", "gated"}
               /\ grid \in {upright, flat})
              => (/\ lastTick' = "commit"
                  /\ animationState'.isRunning
                  /\ grid' \in {upright, flat}
                  /\ grid' # grid)]_vars

C25_Witness ==
    /\ animationState.isRunning
    /\ animationState.currentPattern = "gameOfLife"
    /\ animationState.generation = 2
    /\ lastTick = "commit"
    /\ grid = [r \in 0 .. 2 |-> [c \in 0 .. 2 |-> IF c = 1 THEN 1 ELSE 0]]

\* C26: the Game of Life step reports a change exactly when a cell of the
\* new grid differs from the input; a step that reports none returns its
\* input, and the step of that grid reports none again.
C26_ChangedFlag ==
    \A res \in gameOfLifeStep(grid, gridRows, gridCols) :
        /\ res.hasChanged <=> (\E r \in RowIdx(gridRows), c \in ColIdx(gridCols) :
                                   res.newGrid[r][c] # grid[r][c])
        /\ ~res.hasChanged =>
              /\ res.newGrid = grid
              /\ \A again \in gameOfLifeStep(res.newGrid, gridRows, gridCols) :
                    ~again.hasChanged

C26_Witness ==
    /\ lastTick = "stabilized"
    /\ animationState.currentPattern = "gameOfLife"
    /\ LiveCells(grid) # {}
    /\ \A res \in gameOfLifeStep(grid, gridRows, gridCols) : ~res.hasChanged

\* C27: the Rule 30 step of a 0/1 grid: in the middle row every interior
\* cell is [0,1,1,1,1,0,0,0][4*left + 2*centre + right] of the input row and
\* the two edge cells keep their value; every other row moves one column to
\* the right with 0 entering at column 0; the step always reports a change.
C27_Rule30Cells ==
    LET m == gridRows \div 2
        table == <<0, 1, 1, 1, 1, 0, 0, 0>>
    IN  \A res \in rule30Step(grid, gridRows, gridCols) :
            /\ res.hasChanged
            /\ DOMAIN res.newGrid = RowIdx(gridRows)
            /\ \A r \in RowIdx(gridRows) :
                  /\ DOMAIN res.newGrid[r] = ColIdx(gridCols)
                  /\ \A c \in ColIdx(gridCols) :
                        res.newGrid[r][c] =
                          IF r = m
                          THEN (IF 1 <= c /\ c <= gridCols - 2
                                THEN table[4 * grid[m][c - 1] + 2 * grid[m][c]
                                           + grid[m][c + 1] + 1]
                                ELSE grid[m][c])
                          ELSE (IF c = 0 THEN 0 ELSE grid[r][c - 1])

C27_Witness ==
    /\ lastTick = "commit"
    /\ animationState.currentPattern = "rule30"
    /\ animationState.generation = 1
    /\ gridRows = 3
    /\ grid[0] = [c \in 0 .. 2 |-> IF c = 0 THEN 0 ELSE 1]
    /\ grid[1] = [c \in 0 .. 2 |-> IF c = 1 THEN 0 ELSE 1]

\* C28 as stated: with cols >= 3 one committed Rule 30 step of the grid
\* changePattern(rule30) seeds leaves exactly three live cells in the middle
\* row, at the centre column and its two neighbours.
C28_FirstGeneration ==
    [][LET m == gridRows \div 2
           centre == gridCols \div 2
       IN  (/\ gridCols >= 3
            /\ animationState.currentPattern = "rule30"
            /\ grid = [createEmptyGrid EXCEPT ![m][centre] = 1]
            /\ lastTick' = "commit")
           => (\A c \in ColIdx(gridCols) :
                 grid'[m][c] = IF c \in {centre - 1, centre, centre + 1} THEN 1 ELSE 0)]_vars

\* C28 amended: the same with cols >= 5, where both neighbours of the centre
\* column are interior columns.
C28_FirstGenerationInterior ==
    [][LET m == gridRows \div 2
           centre == gridCols \div 2
       IN  (/\ gridCols >= 5
            /\ animationState.currentPattern = "rule30"
            /\ grid = [createEmptyGrid EXCEPT ![m][centre] = 1]
            /\ lastTick' = "commit")
           => (\A c \in ColIdx(gridCols) :
                 grid'[m][c] = IF c \in {centre - 1, centre, centre + 1} THEN 1 ELSE 0)]_vars

C28_Witness ==
    /\ gridCols = 5
    /\ animationState.currentPattern = "rule30"
    /\ animationState.generation = 1
    /\ lastTick = "commit"
    /\ grid[0] = [c \in 0 .. 4 |-> IF c \in 1 .. 3 THEN 1 ELSE 0]

C30_GridCells ==
    /\ DOMAIN grid = RowIdx(gridRows)
    /\ \A r \in RowIdx(gridRows) :
          /\ DOMAIN grid[r] = ColIdx(gridCols)
          /\ \A c \in ColIdx(gridCols) : grid[r][c] \in {0, 1}

C30_Witness ==
    /\ lastTick = "commit"
    /\ animationState.currentPattern = "rain"
    /\ animationState.generation = MaxGenLimit
    /\ gridCols = 2
    /\ grid[1][0] = 1
    /\ animationState.baselineGrid # <<>>

\* C31: executePattern with the pattern image returns exactly its input grid
\* with hasChanged = FALSE and no pattern state, whatever the grid and the
\* pattern state, and no frame of an engine that runs image changes the live
\* grid or the pattern state.
C31_ImageNoOp ==
    /\ [](\A st \in {animationState.patternState, TimeState(1), RippleState(<<>>)} :
            executePattern(grid, gridRows, gridCols, "image", st) =
                {[newGrid |-> grid, hasChanged |-> FALSE, patternState |-> <<>>]})
    /\ [][(animationState.currentPattern = "image" /\ animationState.isRunning
             /\ TickStep)
            => (/\ grid' = grid
                /\ animationState'.patternState = animationState.patternState)]_vars

\* two frames of an engine that runs image on a grid with live cells were
\* committed
C31_Witness ==
    /\ animationState.currentPattern = "image"
    /\ animationState.isRunning
    /\ lastTick = "commit"
    /\ animationState.generation = 2
    /\ LiveCells(grid) # {}

\* C32: in a rain tick every cell of a row above the bottom row that is
\* live after the spawn phase, spawned in this tick or live before, is live
\* one row lower before the bottom row is cleared and has left its own cell
\* unless a drop from above took it; a cell of rows 1..rows-2 is live then
\* only if the cell above it was live after the spawn phase.
C32_RainShift ==
    animationState.currentPattern = "rain" =>
      \A spawn \in RandomColumns(gridCols) :
        LET spawned == [r \in RowIdx(gridRows) |-> [c \in ColIdx(gridCols) |->
                          IF r = 0 /\ c \in spawn THEN 1 ELSE grid[r][c]]]
            shifted == [r \in RowIdx(gridRows) |-> [c \in ColIdx(gridCols) |->
                          rainCell(grid, gridRows, r, c, spawn, {})]]
        IN  /\ \A r \in 0 .. (gridRows - 2), c \in ColIdx(gridCols) :
                 spawned[r][c] = 1
                   => /\ shifted[r + 1][c] = 1
                      /\ shifted[r][c] = 1 => (r > 0 /\ spawned[r - 1][c] = 1)
            /\ \A r \in 1 .. (gridRows - 2), c \in ColIdx(gridCols) :
                 shifted[r][c] = 1 => spawned[r - 1][c] = 1

\* C33: a ripple step applied to the emitters of the pattern state returns,
\* in their order, each of them with its radius grown by 0.5 (1 in half
\* units) and nothing else changed, except those whose grown radius exceeds
\* their maxRadius, which it drops; after them it returns at most one new
\* emitter, of radius 0.5; so every returned emitter has 0 < radius <=
\* maxRadius; and the step reports a change.
C33_RippleLifecycle ==
    LET old == RipplesOf(animationState.patternState)
        grown == [i \in 1 .. Len(old) |-> [old[i] EXCEPT !.radius2 = @ + 1]]
        kept == SelectSeq(grown, LAMBDA rp : rp.radius2 <= rp.maxRadius2)
    IN  \A res \in rippleStep(grid, gridRows, gridCols, animationState.patternState) :
            /\ res.hasChanged
            /\ res.patternState # <<>>
            /\ LET new == RipplesOf(res.patternState[1])
               IN  /\ Len(new) \in {Len(kept), Len(kept) + 1}
                   /\ SubSeq(new, 1, Len(kept)) = kept
                   /\ Len(new) = Len(kept) + 1 => new[Len(new)].radius2 = 1
                   /\ \A i \in 1 .. Len(new) :
                         0 < new[i].radius2 /\ new[i].radius2 <= new[i].maxRadius2

\* a committed ripple step left an emitter at its maxRadius, which the next
\* step drops, before a younger one, which the next step keeps
C33_Witness ==
    /\ lastTick = "commit"
    /\ animationState.currentPattern = "ripple"
    /\ Len(RipplesOf(animationState.patternState)) = 2
    /\ RipplesOf(animationState.patternState)[1].radius2 =
          RipplesOf(animationState.patternState)[1].maxRadius2
    /\ RipplesOf(animationState.patternState)[2].radius2 = 1

\* C34: a frame that runs animate while isRunning is true and less than the
\* configured interval after the last step reference time is gated: grid,
\* generation and patternState stay as they are, the engine keeps running,
\* and the frame requests exactly one frame in its place.
C34_IntervalGate ==
    [][\A tracked \in BOOLEAN, e \in 0 .. (interval - 1) :
         \/ ~animationState.isRunning
         \/ ~animate(tracked, e)
         \/ /\ lastTick' = "gated"
            /\ grid' = grid
            /\ animationState' = animationState
            /\ animationFrameRef' = "pending"
            /\ PendingOf(animationFrameRef', orphanFrames') = PendingFrames]_vars

\* a frame was gated after a committed step, less than the interval after
\* the reference time
C34_Witness ==
    /\ lastTick = "gated"
    /\ animationState.isRunning
    /\ animationState.generation = 1
    /\ elapsed < interval
    /\ elapsed > 0
    /\ sinceCommit > 0
    /\ animationFrameRef = "pending"

\* C35: a baseline, whenever present, has rows x cols cells, and it is a
\* copy of its own: no step changes a baseline that is present, whatever the
\* step does to the live grid (a committed tick, changePattern, reset,
\* randomize, or the restore by stop() and any step after it).
C35_BaselineSeparate ==
    /\ [](animationState.baselineGrid # <<>>
            => /\ DOMAIN animationState.baselineGrid[1] = RowIdx(gridRows)
               /\ \A r \in RowIdx(gridRows) :
                     DOMAIN animationState.baselineGrid[1][r] = ColIdx(gridCols))
    /\ [][\/ animationState.baselineGrid = <<>>
          \/ animationState'.baselineGrid = animationState.baselineGrid]_vars

\* a baseline with a live cell is kept by a run whose committed steps took
\* the live grid elsewhere
C35_Witness ==
    /\ animationState.isRunning
    /\ lastTick = "commit"
    /\ animationState.generation = MaxGenLimit
    /\ animationState.baselineGrid # <<>>
    /\ LiveCells(animationState.baselineGrid[1]) # {}
    /\ grid # animationState.baselineGrid[1]

\* C36: while the pattern is wave or spiral, a time counter held by the
\* pattern state equals generation and an empty pattern state goes with
\* generation 0, so the step at generation g is computed with time = g and
\* returns the counter g + 1.
C36_TimeIsGeneration ==
    animationState.currentPattern \in {"wave", "spiral"}
      => /\ animationState.patternState.kind \in {"time", "empty"}
         /\ animationState.patternState.kind = "time"
               => animationState.patternState.time = animationState.generation
         /\ TimeOf(animationState.patternState) = animationState.generation
         /\ \A res \in executePattern(grid, gridRows, gridCols,
                                       animationState.currentPattern,
                                       animationState.patternState) :
               res.patternState = <<TimeState(animationState.generation + 1)>>

\* two wave steps were committed
C36_Witness ==
    /\ animationState.currentPattern = "wave"
    /\ lastTick = "commit"
    /\ animationState.generation = 2
    /\ animationState.patternState = TimeState(2)

\* C37: a frame that ends the run, by a stable Game of Life or at
\* the generation limit, changes isRunning and nothing else of the
\* AnimationState or the grid; and an accepted click on the trigger that is
\* still active after it calls start (generation 0, the baseline kept).
C37_AutoStopOnlyIsRunning ==
    [][/\ lastTick' \in {"stabilized", "limit"}
            => /\ animationState' = [animationState EXCEPT !.isRunning = FALSE]
               /\ grid' = grid
       /\ \A k \in AutoStopLetters :
            (/\ ~animationState.isRunning
             /\ animationState.activeLetterIndex = k
             /\ AcceptedClick(k))
              => /\ startAnimation(animateLetterPatterns[k + 1], k)
                 /\ animationState'.generation = 0
                 /\ animationState'.baselineGrid = animationState.baselineGrid]_vars

\* C38: start leaves the live grid as it is; the first frame that passes
\* the gate after start(gameOfLife, i) on the all-zero grid ends the run
\* with generation 0 and the grid unchanged; and every committed frame of a
\* rule30 run on the all-zero grid leaves the grid all zero.
C38_StartKeepsGrid ==
    [][/\ \A i \in StepLetters :
            grid' = grid \/ ~startAnimation(animateLetterPatterns[i + 1], i)
       /\ (/\ animationState.isRunning
           /\ animationState.currentPattern = "gameOfLife"
           /\ animationState.generation = 0
           /\ grid = createEmptyGrid
           /\ UngatedTickStep)
            => /\ lastTick' = "stabilized"
               /\ ~animationState'.isRunning
               /\ animationState'.generation = 0
               /\ grid' = grid
       /\ (/\ animationState.isRunning
           /\ animationState.currentPattern = "rule30"
           /\ grid = createEmptyGrid
           /\ UngatedTickStep)
            => /\ grid' = createEmptyGrid
               /\ (animationState.generation < maxGenerations => lastTick' = "commit")]_vars

\* the first ungated frame ended a Game of Life run on the all-zero grid of
\* 3 x 3 cells
C38_Witness ==
    /\ lastTick = "stabilized"
    /\ fired = <<Stopped>>
    /\ animationState.currentPattern = "gameOfLife"
    /\ animationState.activeLetterIndex = 0
    /\ animationState.generation = 0
    /\ gridCols = 3
    /\ grid = createEmptyGrid

\* C39: a component that mounts with a token and a user name eventually
\* sends the request of its initial fetch, also when the fetch callback
\* changes its identity, or the effect is cleaned up and run again, before
\* the 100 ms timer fires.
C39_InitialFetchIssued == credentials ~> (autoRequests >= 1)

\* C40: a call of fetchGithubContributions by a component without a token
\* or a user name takes the branch that calls onError with the credentials
\* error and returns (outcome nocreds, taken by no call of a component that
\* has both); it sends nothing and leaves isLoading, error, data,
\* isFetching and the time of the last request as they are, so that such a
\* component stays in the loading state it mounted in.
C40_NoCredentials ==
    /\ [](~credentials
            => /\ isLoading /\ error = "null" /\ data = "null"
               /\ ~isFetching /\ ~inFlight
               /\ requests = 0 /\ sinceRequest = ThrottleWindow)
    /\ [][/\ (lastAttempt' # "none" /\ ~credentials)
                => /\ lastAttempt' = "nocreds"
                   /\ UNCHANGED <<isLoading, error, data, isFetching, sinceRequest,
                                  inFlight, requests, autoRequests>>
          /\ lastAttempt' = "nocreds" => ~credentials]_vars

\* the initial timer of a component without credentials made its call
C40_Witness ==
    /\ ~credentials
    /\ lastAttempt = "nocreds"
    /\ initialTimer = "fired"
    /\ isLoading
    /\ requests = 0

====
